---- MODULE Spec2Model ----
(***************************************************************************)
(* Model of the BigQuery MCP gateway (app/main.py, app/mcp_protocol.py,    *)
(* app/bq_service.py, app/policy.py, app/models.py).                       *)
(*                                                                         *)
(* Python strings that the code inspects character by character (the      *)
(* identifier regex, upper(), lower(), strip()) are sequences of           *)
(* one-character strings.  Strings that the code only compares for         *)
(* equality (method names, tool names, enum values) are TLA+ strings.      *)
(* A query text is the sequence of the fragments the f-strings             *)
(* concatenate: the literal pieces of the source, and the characters of    *)
(* each interpolated name.                                                 *)
(***************************************************************************)
EXTENDS Integers, Sequences, FiniteSets, TLC

VARIABLES
    policy,                  \* policy_engine.policy, loaded once (main.py:30)
    max_select_limit,        \* settings.max_select_limit (config.py:24)
    allow_full_table_delete, \* settings.allow_full_table_delete (config.py:25)
    pc,                      \* position of the request being handled
    surface,                 \* "rest" (POST /v1/execute) or "mcp" (POST /mcp)
    principal,               \* result of the principal dependency
    rpc,                     \* the JsonRpcRequest of an /mcp request
    raw,                     \* the structured arguments as received
    args,                    \* the validated ExecuteArgs
    policyCalls,             \* assert_allowed invocations for this request
    policyOk,                \* assert_allowed returned without raising
    storeCalls,              \* calls made to the store client for this request
    response,                \* the response produced for this request
    probe,                   \* inputs and outcome of a direct assert_allowed call
    twin                     \* the same request as handled by POST /v1/execute,
                             \* kept while POST /mcp handles it (surface comparison)

vars == <<policy, max_select_limit, allow_full_table_delete, pc, surface,
          principal, rpc, raw, args, policyCalls, policyOk, storeCalls,
          response, probe, twin>>

-----------------------------------------------------------------------------
(* Bounds of the model *)

\* at most this many entries in a filters / set_values mapping
MaxPairs == 2
\* at most this many names in a columns list
MaxCols == 2
\* at most this many rows in an INSERT
MaxRows == 1
\* at most this many fields in a CREATE_TABLE schema
MaxFields == 2
\* the store reports 0..MaxAffected affected / returned rows
MaxAffected == 1

-----------------------------------------------------------------------------
(* Characters *)

LOWER == <<"a","b","c","d","e","f","g","h","i","j","k","l","m",
           "n","o","p","q","r","s","t","u","v","w","x","y","z">>
UPPER == <<"A","B","C","D","E","F","G","H","I","J","K","L","M",
           "N","O","P","Q","R","S","T","U","V","W","X","Y","Z">>
DIGITS == {"0","1","2","3","4","5","6","7","8","9"}
WHITESPACE == {" ", "\t", "\n", "\r"}

Range(s) == {s[i] : i \in DOMAIN s}

\* str.upper() and str.lower(), character by character
UpperChar(c) ==
    IF \E i \in DOMAIN LOWER : LOWER[i] = c
    THEN UPPER[CHOOSE i \in DOMAIN LOWER : LOWER[i] = c] ELSE c
LowerChar(c) ==
    IF \E i \in DOMAIN UPPER : UPPER[i] = c
    THEN LOWER[CHOOSE i \in DOMAIN UPPER : UPPER[i] = c] ELSE c
StrUpper(s) == [i \in DOMAIN s |-> UpperChar(s[i])]
StrLower(s) == [i \in DOMAIN s |-> LowerChar(s[i])]

\* str.strip(): drop leading and trailing whitespace
StrStrip(s) ==
    LET keep == {i \in DOMAIN s : s[i] \notin WHITESPACE}
    IN  IF keep = {} THEN << >>
        ELSE SubSeq(s, CHOOSE i \in keep : \A j \in keep : i <= j,
                       CHOOSE i \in keep : \A j \in keep : i >= j)

-----------------------------------------------------------------------------
(* Identifier check: bq_service.py IDENT_RE and _ensure_ident *)

\* {0,127}: the longest tail the pattern admits after the first character
IdentTailMax == 127

IDENT_FIRST == Range(LOWER) \cup Range(UPPER) \cup {"_"}
IDENT_REST == IDENT_FIRST \cup DIGITS

\* The language of ^[A-Za-z_][A-Za-z0-9_]{0,127}$ read as a whole-string pattern
IdentPattern(name) ==
    /\ Len(name) >= 1
    /\ Len(name) <= 1 + IdentTailMax
    /\ name[1] \in IDENT_FIRST
    /\ \A i \in 2..Len(name) : name[i] \in IDENT_REST

\* IDENT_RE.match(name): re.match anchors the start, and '$' (no MULTILINE
\* flag) matches at the end of the string or just before a newline that ends it
IDENT_RE_match(name) ==
    \/ IdentPattern(name)
    \/ /\ Len(name) >= 2
       /\ name[Len(name)] = "\n"
       /\ IdentPattern(SubSeq(name, 1, Len(name) - 1))

\* _ensure_ident raises ValueError unless the name matches, else returns it
ensure_ident_ok(name) == IDENT_RE_match(name)

-----------------------------------------------------------------------------
(* Strings of the inputs *)
s_sales == <<"s","a","l","e","s">>
s_mkt == <<"m","k","t">>
s_hr == <<"h","r">>
s_my_ds == <<"m","y","-","d","s">>
s_orders == <<"o","r","d","e","r","s">>
s_invoices == <<"i","n","v","o","i","c","e","s">>
s_orders_nl == <<"o","r","d","e","r","s","\n">>
s_1x == <<"1","x">>
s_status == <<"s","t","a","t","u","s">>
s_qty == <<"q","t","y">>
s_bad_col == <<"a",";","b">>
s_done == <<"d","o","n","e">>
s_inject == <<"x","'"," ","O","R"," ","1","=","1">>
s_alice == <<"a","l","i","c","e">>
s_bob == <<"b","o","b">>
s_carol == <<"c","a","r","o","l">>
s_Alice_sp == <<" ","A","l","i","c","e"," ">>
s_star == <<"*">>
s_SELECT == <<"S","E","L","E","C","T">>
s_CREATE_TABLE == <<"C","R","E","A","T","E","_","T","A","B","L","E">>
s_INSERT == <<"I","N","S","E","R","T">>
s_UPDATE == <<"U","P","D","A","T","E">>
s_DELETE == <<"D","E","L","E","T","E">>
s_select == <<"s","e","l","e","c","t">>
s_Update_sp == <<" ","U","p","d","a","t","e"," ">>
s_DROP == <<"D","R","O","P">>
s_STRING == <<"S","T","R","I","N","G">>
s_BYTES == <<"B","Y","T","E","S">>
s_INT64 == <<"I","N","T","6","4">>
s_FLOAT64 == <<"F","L","O","A","T","6","4">>
s_NUMERIC == <<"N","U","M","E","R","I","C">>
s_BIGNUMERIC == <<"B","I","G","N","U","M","E","R","I","C">>
s_BOOL == <<"B","O","O","L">>
s_TIMESTAMP == <<"T","I","M","E","S","T","A","M","P">>
s_DATE == <<"D","A","T","E">>
s_TIME == <<"T","I","M","E">>
s_DATETIME == <<"D","A","T","E","T","I","M","E">>
s_JSON == <<"J","S","O","N">>
s_string == <<"s","t","r","i","n","g">>
s_GEOGRAPHY == <<"G","E","O","G","R","A","P","H","Y">>
s_NULLABLE == <<"N","U","L","L","A","B","L","E">>
s_REQUIRED == <<"R","E","Q","U","I","R","E","D">>
s_REPEATED == <<"R","E","P","E","A","T","E","D">>
s_required == <<"r","e","q","u","i","r","e","d">>
s_OPTIONAL == <<"O","P","T","I","O","N","A","L">>
s_id == <<"i","d">>
\* names at and just past the length the pattern admits (128 and 129 characters)
s_long_ok == [i \in 1..(1 + IdentTailMax) |-> "a"]
s_too_long == [i \in 1..(2 + IdentTailMax) |-> "a"]

-----------------------------------------------------------------------------
(* JSON values of a request: a kind tag with a string or a number payload *)

JStr(s) == [k |-> "str", s |-> s, n |-> 0]
JInt(n) == [k |-> "int", s |-> << >>, n |-> n]
JBool(b) == [k |-> "bool", s |-> << >>, n |-> IF b THEN 1 ELSE 0]
JNull == [k |-> "null", s |-> << >>, n |-> 0]
\* a key that the document does not carry
ABSENT == [k |-> "absent", s |-> << >>, n |-> 0]

\* Optional[List[..]] / Optional[Dict[..]]: None, or the entries in order
None == [present |-> FALSE, v |-> << >>]
Some(seq) == [present |-> TRUE, v |-> seq]
\* Python truthiness of an Optional list / dict: None and empty are falsy
Truthy(opt) == opt.present /\ opt.v # << >>

\* bq_service.py _param_type: bool is tested before int
param_type(value) ==
    CASE value.k = "bool" -> "BOOL"
      [] value.k = "int" -> "INT64"
      [] value.k = "float" -> "FLOAT64"
      [] value.k = "decimal" -> "NUMERIC"
      [] value.k = "datetime" -> "TIMESTAMP"
      [] value.k = "date" -> "DATE"
      [] OTHER -> "STRING"

-----------------------------------------------------------------------------
(* models.py *)

\* class Operation(str, Enum)
OPERATIONS == {s_SELECT, s_CREATE_TABLE, s_INSERT, s_UPDATE, s_DELETE}

\* TableField.upper_mode: the three accepted modes
MODES == {s_NULLABLE, s_REQUIRED, s_REPEATED}

\* ExecuteArgs.limit: int = 100
DEFAULT_LIMIT == 100

\* TableField validation: mode defaults to NULLABLE, is upper-cased and must be
\* one of MODES; type is upper-cased and not checked here
TableField_valid(f) ==
    \/ f.mode.k = "absent"
    \/ f.mode.k = "str" /\ StrUpper(f.mode.s) \in MODES

TableField_parse(f) ==
    [name |-> f.name,
     type |-> StrUpper(f.type),
     mode |-> IF f.mode.k = "absent" THEN s_NULLABLE ELSE StrUpper(f.mode.s)]

\* ExecuteArgs.model_validate(raw) succeeds: operation is a member of the enum
\* (by exact value), dataset and table are strings, limit is absent or an
\* integer, every schema field validates
ExecuteArgs_valid(r) ==
    /\ r.operation.k = "str" /\ r.operation.s \in OPERATIONS
    /\ r.dataset.k = "str"
    /\ r.table.k = "str"
    /\ r.limit.k \in {"absent", "int"}
    /\ \A i \in DOMAIN r.schema.v : TableField_valid(r.schema.v[i])

\* the ExecuteArgs that model_validate builds, defaults filled in
ExecuteArgs_parse(r) ==
    [operation |-> r.operation.s,
     dataset |-> r.dataset.s,
     table |-> r.table.s,
     columns |-> r.columns,
     filters |-> r.filters,
     limit |-> IF r.limit.k = "absent" THEN DEFAULT_LIMIT ELSE r.limit.n,
     schema |-> [present |-> r.schema.present,
                 v |-> [i \in DOMAIN r.schema.v |-> TableField_parse(r.schema.v[i])]],
     if_not_exists |-> r.if_not_exists,
     rows |-> r.rows,
     set_values |-> r.set_values]

\* no ExecuteArgs (before validation, or a request that carries none)
NoArgs ==
    [operation |-> << >>, dataset |-> << >>, table |-> << >>, columns |-> None,
     filters |-> None, limit |-> 0, schema |-> None, if_not_exists |-> TRUE,
     rows |-> None, set_values |-> None]

-----------------------------------------------------------------------------
(* policy.py *)

\* a rule set: the allowed operations and, per dataset, the allowed tables
\* ({} when the key is missing: rules.get("operations", []), rules.get("datasets", {}))
EMPTY_RULES == [operations |-> {}, datasets |-> {}]

\* PolicyEngine._normalize_ops
normalize_ops(ops) == {StrStrip(StrUpper(op)) : op \in ops}

\* PolicyEngine._get_rules_for_principal
get_rules_for_principal(pol, p) ==
    LET principal_l == StrStrip(StrLower(p))
    IN  IF \E e \in pol.principals : e.name = principal_l
        THEN (CHOOSE e \in pol.principals : e.name = principal_l).rules
        ELSE IF pol.has_default THEN pol.default ELSE EMPTY_RULES

\* assert_allowed with the wildcard looked up in every dataset of the rule set
\* instead of the requested one
assert_allowed_WildcardAnywhere(pol, p, operation, dataset, table) ==
    LET rules == get_rules_for_principal(pol, p)
        allowed_ops == normalize_ops(rules.operations)
        op_u == StrStrip(StrUpper(operation))
    IN  IF op_u \notin allowed_ops THEN "operation"
        ELSE IF ~ \E d \in rules.datasets : d.name = dataset THEN "dataset"
        ELSE LET tables == (CHOOSE d \in rules.datasets : d.name = dataset).tables
             IN  IF \E d \in rules.datasets : s_star \in d.tables THEN "ok"
                 ELSE IF table \notin tables THEN "table"
                 ELSE "ok"

\* PolicyEngine.assert_allowed: "ok" when it returns, else which check raised
\* PermissionError ("operation", "dataset" or "table")
assert_allowed(pol, p, operation, dataset, table) ==
    LET rules == get_rules_for_principal(pol, p)
        allowed_ops == normalize_ops(rules.operations)
        op_u == StrStrip(StrUpper(operation))
    IN  IF op_u \notin allowed_ops THEN "operation"
        ELSE IF ~ \E d \in rules.datasets : d.name = dataset THEN "dataset"
        ELSE LET tables == (CHOOSE d \in rules.datasets : d.name = dataset).tables
             IN  IF s_star \in tables THEN "ok"
                 ELSE IF table \notin tables THEN "table"
                 ELSE "ok"

-----------------------------------------------------------------------------
(* bq_service.py: translation of the validated arguments into a store call *)

\* settings.project_id (required setting, no default)
PROJECT_ID == <<"p","r","o","j">>

ALLOWED_TYPES ==
    {s_STRING, s_BYTES, s_INT64, s_FLOAT64, s_NUMERIC, s_BIGNUMERIC,
     s_BOOL, s_TIMESTAMP, s_DATE, s_TIME, s_DATETIME, s_JSON}

\* the fallback of "args.limit or 100" in _select
SELECT_FALLBACK_LIMIT == 100

Min(a, b) == IF a <= b THEN a ELSE b
Max(a, b) == IF a >= b THEN a ELSE b

\* sep.join(parts), parts a sequence of fragment sequences
RECURSIVE Join(_, _)
Join(parts, sep) ==
    IF parts = << >> THEN << >>
    ELSE IF Len(parts) = 1 THEN parts[1]
    ELSE parts[1] \o <<sep>> \o Join(Tail(parts), sep)

\* the backquote character that quotes a name in a query text
BACKQUOTE == "BACKQUOTE"

\* BigQueryService._table_ref, for names that passed _ensure_ident
table_ref(dataset, table) ==
    <<BACKQUOTE>> \o PROJECT_ID \o <<".">> \o dataset \o <<".">> \o table \o <<BACKQUOTE>>

\* BigQueryService._col_ref, for a name that passed _ensure_ident
col_ref(col) == <<BACKQUOTE>> \o col \o <<BACKQUOTE>>

\* f"{project_id}.{dataset}.{table}" of _create_table and _insert
table_id(dataset, table) == PROJECT_ID \o <<".">> \o dataset \o <<".">> \o table

\* the loop "for i, (k, v) in enumerate(d.items())": one predicate
\* "col = @<prefix><i>" per entry, i counted from 0
predicates(d, prefix) ==
    [j \in DOMAIN d |-> col_ref(d[j].key) \o <<" = @", prefix \o ToString(j - 1)>>]

\* and one ScalarQueryParameter(pname, _param_type(v), v) per entry
parameters(d, prefix) ==
    [j \in DOMAIN d |->
        [name |-> prefix \o ToString(j - 1), type |-> param_type(d[j].val),
         value |-> d[j].val]]

\* every key of a mapping passes _col_ref
keys_ok(d) == \A j \in DOMAIN d : ensure_ident_ok(d[j].key)

\* a call of the store client
StoreCall(api, sql, params, tid, rows, schema, exists_ok) ==
    [api |-> api, sql |-> sql, params |-> params, table_id |-> tid,
     rows |-> rows, schema |-> schema, exists_ok |-> exists_ok]
NoCall == StoreCall("none", << >>, << >>, << >>, << >>, << >>, FALSE)

\* outcome of a translation: the exception raised before the store is
\* reached ("" when none) and the store call issued otherwise
Raise(e) == [err |-> e, call |-> NoCall]
Issue(c) == [err |-> "", call |-> c]

\* the clamp of _select: min(max(int(args.limit or 100), 1), max_select_limit)
select_limit(limit, maxlim) ==
    Min(Max(IF limit # 0 THEN limit ELSE SELECT_FALLBACK_LIMIT, 1), maxlim)

\* BigQueryService._select up to client.query
select_call(a, maxlim) ==
    IF ~ (ensure_ident_ok(a.dataset) /\ ensure_ident_ok(a.table)) THEN Raise("ValueError")
    ELSE IF Truthy(a.columns) /\ ~ \A i \in DOMAIN a.columns.v : ensure_ident_ok(a.columns.v[i])
    THEN Raise("ValueError")
    ELSE IF Truthy(a.filters) /\ ~ keys_ok(a.filters.v) THEN Raise("ValueError")
    ELSE
    LET cols == IF Truthy(a.columns)
                THEN Join([i \in DOMAIN a.columns.v |-> col_ref(a.columns.v[i])], ", ")
                ELSE <<"*">>
        limit == select_limit(a.limit, maxlim)
        where == IF Truthy(a.filters)
                 THEN <<" WHERE ">> \o Join(predicates(a.filters.v, "f"), " AND ")
                 ELSE << >>
        fparams == IF Truthy(a.filters) THEN parameters(a.filters.v, "f") ELSE << >>
        sql == <<"SELECT ">> \o cols \o <<" FROM ">> \o table_ref(a.dataset, a.table)
               \o where \o <<" LIMIT @limit">>
        params == fparams \o <<[name |-> "limit", type |-> "INT64", value |-> JInt(limit)]>>
    IN  Issue(StoreCall("query", sql, params, << >>, << >>, << >>, FALSE))

\* BigQueryService._create_table up to client.create_table
create_table_call(a) ==
    IF ~ Truthy(a.schema) THEN Raise("ValueError")
    ELSE IF ~ (ensure_ident_ok(a.dataset) /\ ensure_ident_ok(a.table)) THEN Raise("ValueError")
    ELSE IF \E i \in DOMAIN a.schema.v :
                \/ a.schema.v[i].type \notin ALLOWED_TYPES
                \/ ~ ensure_ident_ok(a.schema.v[i].name)
    THEN Raise("ValueError")
    ELSE Issue(StoreCall("create_table", << >>, << >>, table_id(a.dataset, a.table),
                         << >>, a.schema.v, a.if_not_exists))

\* BigQueryService._insert up to client.insert_rows_json
insert_call(a) ==
    IF ~ Truthy(a.rows) THEN Raise("ValueError")
    ELSE IF ~ (ensure_ident_ok(a.dataset) /\ ensure_ident_ok(a.table)) THEN Raise("ValueError")
    ELSE Issue(StoreCall("insert_rows_json", << >>, << >>, table_id(a.dataset, a.table),
                         a.rows.v, << >>, FALSE))

\* BigQueryService._update up to client.query
update_call(a) ==
    IF ~ Truthy(a.set_values) THEN Raise("ValueError")
    ELSE IF ~ Truthy(a.filters) THEN Raise("ValueError")
    ELSE IF ~ (ensure_ident_ok(a.dataset) /\ ensure_ident_ok(a.table)) THEN Raise("ValueError")
    ELSE IF ~ (keys_ok(a.set_values.v) /\ keys_ok(a.filters.v)) THEN Raise("ValueError")
    ELSE
    LET sql == <<"\n        UPDATE ">> \o table_ref(a.dataset, a.table)
               \o <<"\n        SET ">> \o Join(predicates(a.set_values.v, "s"), ", ")
               \o <<"\n        WHERE ">> \o Join(predicates(a.filters.v, "w"), " AND ")
               \o <<"\n        ">>
        params == parameters(a.set_values.v, "s") \o parameters(a.filters.v, "w")
    IN  Issue(StoreCall("query", sql, params, << >>, << >>, << >>, FALSE))

\* BigQueryService._delete up to client.query
delete_call(a, allow_full) ==
    IF ~ (ensure_ident_ok(a.dataset) /\ ensure_ident_ok(a.table)) THEN Raise("ValueError")
    ELSE IF Truthy(a.filters) /\ ~ keys_ok(a.filters.v) THEN Raise("ValueError")
    ELSE IF ~ Truthy(a.filters) /\ ~ allow_full THEN Raise("ValueError")
    ELSE
    LET where_sql == IF Truthy(a.filters)
                     THEN <<" WHERE ">> \o Join(predicates(a.filters.v, "d"), " AND ")
                     ELSE << >>
        params == IF Truthy(a.filters) THEN parameters(a.filters.v, "d") ELSE << >>
        sql == <<"DELETE FROM ">> \o table_ref(a.dataset, a.table) \o where_sql
    IN  Issue(StoreCall("query", sql, params, << >>, << >>, << >>, FALSE))

\* BigQueryService.execute: dispatch on the operation
execute_call(a, maxlim, allow_full) ==
    CASE a.operation = s_SELECT -> select_call(a, maxlim)
      [] a.operation = s_CREATE_TABLE -> create_table_call(a)
      [] a.operation = s_INSERT -> insert_call(a)
      [] a.operation = s_UPDATE -> update_call(a)
      [] a.operation = s_DELETE -> delete_call(a, allow_full)
      [] OTHER -> Raise("ValueError")

-----------------------------------------------------------------------------
(* Configuration and inputs *)

Rule(ops, datasets) == [operations |-> ops, datasets |-> datasets]
Dataset(name, tables) == [name |-> name, tables |-> tables]

\* a policy document with a rule set for alice and for carol and a default:
\* operations are written in mixed case and with blanks, one dataset carries
\* the wildcard, one dataset name is no identifier, one table list is empty
POLICY_A ==
    [principals |->
        {[name |-> s_alice,
          rules |-> Rule({s_select, s_Update_sp, s_DELETE, s_INSERT, s_CREATE_TABLE},
                         {Dataset(s_sales, {s_orders}), Dataset(s_mkt, {s_star}),
                          Dataset(s_my_ds, {s_star})})],
         [name |-> s_carol,
          rules |-> Rule({s_SELECT}, {Dataset(s_sales, {})})]},
     has_default |-> TRUE,
     default |-> Rule({s_SELECT}, {Dataset(s_sales, {s_orders})})]

\* a policy document without a default rule set
POLICY_B ==
    [principals |->
        {[name |-> s_alice,
          rules |-> Rule({s_SELECT, s_DELETE}, {Dataset(s_mkt, {s_star, s_invoices})})]},
     has_default |-> FALSE,
     default |-> EMPTY_RULES]

\* the policy document the gateway serves requests with
ServedPolicies == {POLICY_A}
\* settings.max_select_limit: the default, and a value below DEFAULT_LIMIT
MaxSelectLimits == {50, 1000}

\* principals the principal dependency yields (stripped and lower-cased)
Principals == {s_alice, s_bob}

\* (dataset, table) of a request
NamePairs ==
    {<<s_sales, s_orders>>, <<s_sales, s_invoices>>, <<s_hr, s_orders>>,
     <<s_mkt, s_invoices>>, <<s_mkt, s_orders_nl>>, <<s_mkt, s_long_ok>>,
     <<s_mkt, s_too_long>>, <<s_mkt, s_1x>>, <<s_my_ds, s_orders>>}

\* the subsequences of seq with at most n elements, order kept
SubSeqs(seq, n) ==
    LET pick(S) == [i \in 1..Cardinality(S) |->
                       seq[CHOOSE j \in S : Cardinality({k \in S : k < j}) = i - 1]]
    IN  {pick(S) : S \in {T \in SUBSET DOMAIN seq : Cardinality(T) <= n}}

Entry(key, val) == [key |-> key, val |-> val]

\* filters / set_values of a request: None, or entries taken from these
ENTRY_POOL ==
    <<Entry(s_status, JStr(s_done)), Entry(s_qty, JInt(7)),
      Entry(s_bad_col, JStr(s_inject))>>
DictInputs == {None} \cup {Some(s) : s \in SubSeqs(ENTRY_POOL, MaxPairs)}

\* columns of a request
COLUMN_POOL == <<s_status, s_bad_col>>
ColumnInputs == {None} \cup {Some(s) : s \in SubSeqs(COLUMN_POOL, MaxCols)}

\* limit of a request: absent, null, or an integer
LimitInputs == {ABSENT, JNull, JInt(-3), JInt(0), JInt(7), JInt(5000)}

\* rows of an INSERT
ROW_POOL == <<<<Entry(s_id, JInt(1))>>, <<Entry(s_id, JInt(2))>>>>
RowInputs == {None} \cup {Some(s) : s \in SubSeqs(ROW_POOL, MaxRows)}

\* schema of a CREATE_TABLE
Field(name, type, mode) == [name |-> name, type |-> type, mode |-> mode]
FIELD_POOL ==
    <<Field(s_id, s_INT64, ABSENT), Field(s_status, s_string, JStr(s_required)),
      Field(s_qty, s_GEOGRAPHY, ABSENT), Field(s_bad_col, s_STRING, ABSENT),
      Field(s_qty, s_INT64, JStr(s_OPTIONAL))>>
SchemaInputs ==
    {None} \cup {Some(s) : s \in SubSeqs(FIELD_POOL, MaxFields)}

RawArgs(op, ds, tb, columns, filters, limit, schema, ine, rows, set_values) ==
    [operation |-> op, dataset |-> ds, table |-> tb, columns |-> columns,
     filters |-> filters, limit |-> limit, schema |-> schema,
     if_not_exists |-> ine, rows |-> rows, set_values |-> set_values]

\* the arguments document {}: every key absent
EMPTY_RAW == RawArgs(ABSENT, ABSENT, ABSENT, None, None, ABSENT, None, TRUE, None, None)

SelectInputs ==
    {RawArgs(JStr(s_SELECT), JStr(nm[1]), JStr(nm[2]), c, f, l, None, TRUE, None, None) :
        nm \in NamePairs, c \in ColumnInputs, f \in DictInputs, l \in LimitInputs}
CreateTableInputs ==
    {RawArgs(JStr(s_CREATE_TABLE), JStr(nm[1]), JStr(nm[2]), None, None, ABSENT, s, e, None, None) :
        nm \in NamePairs, s \in SchemaInputs, e \in BOOLEAN}
InsertInputs ==
    {RawArgs(JStr(s_INSERT), JStr(nm[1]), JStr(nm[2]), None, None, ABSENT, None, TRUE, r, None) :
        nm \in NamePairs, r \in RowInputs}
UpdateInputs ==
    {RawArgs(JStr(s_UPDATE), JStr(nm[1]), JStr(nm[2]), None, f, ABSENT, None, TRUE, None, sv) :
        nm \in NamePairs, f \in DictInputs, sv \in DictInputs}
DeleteInputs ==
    {RawArgs(JStr(s_DELETE), JStr(nm[1]), JStr(nm[2]), None, f, ABSENT, None, TRUE, None, None) :
        nm \in NamePairs, f \in DictInputs}
\* documents that model_validate rejects for a missing or mistyped field or an
\* unknown operation
MalformedInputs ==
    {EMPTY_RAW,
     RawArgs(JStr(s_DROP), JStr(s_sales), JStr(s_orders), None, None, ABSENT, None, TRUE, None, None),
     RawArgs(JStr(s_select), JStr(s_sales), JStr(s_orders), None, None, ABSENT, None, TRUE, None, None),
     RawArgs(JStr(s_SELECT), JInt(5), JStr(s_orders), None, None, ABSENT, None, TRUE, None, None),
     RawArgs(JStr(s_SELECT), JStr(s_sales), ABSENT, None, None, ABSENT, None, TRUE, None, None)}

RawInputs ==
    SelectInputs \cup CreateTableInputs \cup InsertInputs \cup UpdateInputs
    \cup DeleteInputs \cup MalformedInputs

\* JSON-RPC request: id, method, and of params the tool name and whether it
\* carries arguments (the arguments document itself is the variable raw)
IdInputs == {JNull, JInt(7), JStr(s_id)}
TOOL_NAME == "bigquery.execute"
NO_NAME == "None"
ToolNameInputs == {TOOL_NAME, "execute-operation", NO_NAME}
MethodInputs == {"tools/list", "tools/call", "initialize"}
Rpc(id, method, name, has_arguments) ==
    [id |-> id, method |-> method, name |-> name, has_arguments |-> has_arguments]
NoRpc == Rpc(JNull, "", NO_NAME, FALSE)

-----------------------------------------------------------------------------
(* Responses *)

\* a result document: of tools/list (the tool descriptors) or of an operation
\* (row_count / inserted_rows / affected_rows as count)
NoResult == [kind |-> "none", operation |-> << >>, count |-> 0, tools |-> << >>]
ToolsResult(tools) == [kind |-> "tools", operation |-> << >>, count |-> 0, tools |-> tools]
OperationResult(op, n) == [kind |-> "operation", operation |-> op, count |-> n, tools |-> << >>]

\* HTTP status, and the body: a JSON-RPC envelope (id, result or error code)
\* on /mcp, a result document or a detail on /v1/execute
Response(status, has_id, id, has_result, result, has_error, code) ==
    [status |-> status, has_id |-> has_id, id |-> id, has_result |-> has_result,
     result |-> result, has_error |-> has_error, code |-> code]
NoResponse == Response(0, FALSE, JNull, FALSE, NoResult, FALSE, 0)

\* _rpc_err that builds the envelope with a null id
rpc_err_NullId(req_id, code) == Response(200, TRUE, JNull, FALSE, NoResult, TRUE, code)

\* mcp_protocol.py _rpc_ok and _rpc_err, sent by mcp_endpoint as JSONResponse
rpc_ok(req_id, result) == Response(200, TRUE, req_id, TRUE, result, FALSE, 0)
rpc_err(req_id, code) == Response(200, TRUE, req_id, FALSE, NoResult, TRUE, code)

\* main.py: the return of execute_rest and the exception handlers
rest_ok(result) == Response(200, FALSE, JNull, TRUE, result, FALSE, 0)
rest_error(status) == Response(status, FALSE, JNull, FALSE, NoResult, TRUE, 0)

\* status of a request body that fails validation (FastAPI's handler of
\* RequestValidationError; no handler of main.py applies)
STATUS_UNPROCESSABLE == 422
\* permission_error_handler
STATUS_FORBIDDEN == 403
\* value_error_handler
STATUS_BAD_REQUEST == 400
\* an exception no handler of main.py catches
STATUS_SERVER_ERROR == 500

\* the error codes of handle_mcp_request
CODE_METHOD_NOT_FOUND == -32601
CODE_INVALID_PARAMS == -32602
CODE_EXECUTION_ERROR == -32000

\* the response to an exception raised inside the handler: PermissionError,
\* ValueError, or any other exception (a store client error)
rest_exception(e) ==
    CASE e = "PermissionError" -> rest_error(STATUS_FORBIDDEN)
      [] e = "ValueError" -> rest_error(STATUS_BAD_REQUEST)
      [] OTHER -> rest_error(STATUS_SERVER_ERROR)

\* "except Exception as e" of handle_mcp_request
mcp_exception(req_id, e) == rpc_err(req_id, CODE_EXECUTION_ERROR)

exception_response(s, req_id, e) ==
    IF s = "rest" THEN rest_exception(e) ELSE mcp_exception(req_id, e)

success_response(s, req_id, result) ==
    IF s = "rest" THEN rest_ok(result) ELSE rpc_ok(req_id, result)

\* a descriptor list that also lists a second tool
TOOLS_Two == <<[name |-> "bigquery.execute"], [name |-> "bigquery.query"]>>

\* the static descriptor list of tools/list
TOOLS == <<[name |-> TOOL_NAME]>>

-----------------------------------------------------------------------------
(* The gateway *)

NoProbe == [state |-> "none", principal |-> << >>, operation |-> << >>,
            dataset |-> << >>, table |-> << >>, outcome |-> ""]

\* no comparison of the surfaces under way
NoTwin == [phase |-> "off", store |-> "ok", n |-> 0, principal |-> << >>,
           raw |-> EMPTY_RAW, policyCalls |-> 0, policyOk |-> FALSE,
           storeCalls |-> << >>, response |-> NoResponse]

IdleRequest ==
    /\ pc = "idle"
    /\ surface = "none"
    /\ principal = << >>
    /\ rpc = NoRpc
    /\ raw = EMPTY_RAW
    /\ args = NoArgs
    /\ policyCalls = 0
    /\ policyOk = FALSE
    /\ storeCalls = << >>
    /\ response = NoResponse

Init ==
    /\ policy \in ServedPolicies
    /\ max_select_limit \in MaxSelectLimits
    /\ allow_full_table_delete \in BOOLEAN
    /\ IdleRequest
    /\ probe = NoProbe
    /\ twin = NoTwin

config == <<policy, max_select_limit, allow_full_table_delete>>

\* POST /v1/execute arrives: FastAPI builds ExecuteArgs from the body before
\* execute_rest runs, and answers itself when that fails
RestRequest(p, r) ==
    /\ surface' = "rest"
    /\ principal' = p
    /\ raw' = r
    /\ IF ExecuteArgs_valid(r)
       THEN /\ args' = ExecuteArgs_parse(r)
            /\ pc' = "authorize"
            /\ response' = response
       ELSE /\ args' = args
            /\ pc' = "done"
            /\ response' = rest_error(STATUS_UNPROCESSABLE)
    /\ UNCHANGED <<config, rpc, policyCalls, policyOk, storeCalls, probe, twin>>

RestReceive ==
    /\ pc = "idle"
    /\ \E p \in Principals, r \in RawInputs : RestRequest(p, r)

\* POST /mcp, method tools/list
ToolsListRequest(p, q) ==
    /\ q.method = "tools/list"
    /\ surface' = "mcp"
    /\ principal' = p
    /\ rpc' = q
    /\ response' = rpc_ok(q.id, ToolsResult(TOOLS))
    /\ pc' = "done"
    /\ UNCHANGED <<config, raw, args, policyCalls, policyOk, storeCalls, probe, twin>>

McpToolsList ==
    /\ pc = "idle"
    /\ \E p \in Principals, i \in IdInputs, nm \in ToolNameInputs, h \in BOOLEAN :
          ToolsListRequest(p, Rpc(i, "tools/list", nm, h))

\* POST /mcp, method tools/call, up to the call of execute_callable
ToolsCallRequest(p, q, r) ==
    /\ q.method = "tools/call"
    /\ surface' = "mcp"
    /\ principal' = p
    /\ rpc' = q
    /\ IF q.name # TOOL_NAME
       THEN /\ response' = rpc_err(q.id, CODE_METHOD_NOT_FOUND)
            /\ pc' = "done"
            /\ raw' = raw
            /\ args' = args
       ELSE /\ raw' = IF q.has_arguments THEN r ELSE EMPTY_RAW
            /\ IF ~ ExecuteArgs_valid(raw')
               THEN /\ response' = rpc_err(q.id, CODE_INVALID_PARAMS)
                    /\ pc' = "done"
                    /\ args' = args
               ELSE /\ args' = ExecuteArgs_parse(raw')
                    /\ pc' = "authorize"
                    /\ response' = response
    /\ UNCHANGED <<config, policyCalls, policyOk, storeCalls, probe, twin>>

McpToolsCall ==
    /\ pc = "idle"
    /\ \E p \in Principals, i \in IdInputs, nm \in ToolNameInputs, h \in BOOLEAN :
          \E r \in IF h /\ nm = TOOL_NAME THEN RawInputs ELSE {EMPTY_RAW} :
             ToolsCallRequest(p, Rpc(i, "tools/call", nm, h), r)

\* POST /mcp, any other method
UnknownMethodRequest(p, q) ==
    /\ q.method \notin {"tools/list", "tools/call"}
    /\ surface' = "mcp"
    /\ principal' = p
    /\ rpc' = q
    /\ response' = rpc_err(q.id, CODE_METHOD_NOT_FOUND)
    /\ pc' = "done"
    /\ UNCHANGED <<config, raw, args, policyCalls, policyOk, storeCalls, probe, twin>>

McpUnknownMethod ==
    /\ pc = "idle"
    /\ \E p \in Principals, i \in IdInputs, m \in MethodInputs :
          UnknownMethodRequest(p, Rpc(i, m, NO_NAME, FALSE))

\* a handler that treats SELECT as harmless and hands it to the store without
\* asking the policy engine
Authorize_SkipsSelect ==
    /\ pc = "authorize"
    /\ IF args.operation = s_SELECT
       THEN /\ policyCalls' = policyCalls
            /\ policyOk' = policyOk
            /\ pc' = "execute"
            /\ response' = response
       ELSE /\ policyCalls' = policyCalls + 1
            /\ LET outcome == assert_allowed(policy, principal, args.operation,
                                             args.dataset, args.table)
               IN  IF outcome = "ok"
                   THEN /\ policyOk' = TRUE
                        /\ pc' = "execute"
                        /\ response' = response
                   ELSE /\ policyOk' = FALSE
                        /\ pc' = "done"
                        /\ response' = exception_response(surface, rpc.id, "PermissionError")
    /\ UNCHANGED <<config, surface, principal, rpc, raw, args, storeCalls, probe, twin>>

\* Authorize in which execute_callable omits the policy call
Authorize_McpUnchecked ==
    /\ pc = "authorize"
    /\ IF surface = "mcp"
       THEN /\ policyCalls' = policyCalls
            /\ policyOk' = policyOk
            /\ pc' = "execute"
            /\ response' = response
       ELSE /\ policyCalls' = policyCalls + 1
            /\ LET outcome == assert_allowed(policy, principal, args.operation,
                                             args.dataset, args.table)
               IN  IF outcome = "ok"
                   THEN /\ policyOk' = TRUE
                        /\ pc' = "execute"
                        /\ response' = response
                   ELSE /\ policyOk' = FALSE
                        /\ pc' = "done"
                        /\ response' = exception_response(surface, rpc.id, "PermissionError")
    /\ UNCHANGED <<config, surface, principal, rpc, raw, args, storeCalls, probe, twin>>

\* policy_engine.assert_allowed(...) in execute_rest and in execute_callable
Authorize ==
    /\ pc = "authorize"
    /\ policyCalls' = policyCalls + 1
    /\ LET outcome == assert_allowed(policy, principal, args.operation,
                                     args.dataset, args.table)
       IN  IF outcome = "ok"
           THEN /\ policyOk' = TRUE
                /\ pc' = "execute"
                /\ response' = response
           ELSE /\ policyOk' = FALSE
                /\ pc' = "done"
                /\ response' = exception_response(surface, rpc.id, "PermissionError")
    /\ UNCHANGED <<config, surface, principal, rpc, raw, args, storeCalls, probe, twin>>

\* run_in_threadpool(bq_service.execute, args), up to the store call
Execute ==
    /\ pc = "execute"
    /\ LET out == execute_call(args, max_select_limit, allow_full_table_delete)
       IN  IF out.err # ""
           THEN /\ storeCalls' = storeCalls
                /\ pc' = "done"
                /\ response' = exception_response(surface, rpc.id, out.err)
           ELSE /\ storeCalls' = Append(storeCalls, out.call)
                /\ pc' = "store"
                /\ response' = response
    /\ UNCHANGED <<config, surface, principal, rpc, raw, args, policyCalls,
                   policyOk, probe, twin>>

\* what the store client does with a call: it returns ("ok"), it raises
\* ("error"), or insert_rows_json returns row errors ("row_errors")
StoreOutcomes(call) ==
    IF call.api = "insert_rows_json" THEN {"ok", "error", "row_errors"}
    ELSE {"ok", "error"}

\* StoreReply in which a call that raised is issued once more
StoreReply_Retries(outcome, n) ==
    /\ pc = "store"
    /\ LET call == storeCalls[Len(storeCalls)]
       IN  /\ outcome \in StoreOutcomes(call)
           /\ IF outcome = "error" /\ Len(storeCalls) < 2
              THEN /\ pc' = "execute"
                   /\ response' = response
              ELSE /\ pc' = "done"
                   /\ response' =
                        CASE outcome = "error" ->
                               exception_response(surface, rpc.id, "GoogleAPIError")
                          [] outcome = "row_errors" ->
                               exception_response(surface, rpc.id, "ValueError")
                          [] OTHER ->
                               success_response(surface, rpc.id,
                                   OperationResult(args.operation,
                                       CASE call.api = "insert_rows_json" -> Len(args.rows.v)
                                         [] call.api = "create_table" -> 1
                                         [] OTHER -> n))
    /\ UNCHANGED <<config, surface, principal, rpc, raw, args, policyCalls,
                   policyOk, storeCalls, probe, twin>>

\* the rest of _select / _create_table / _insert / _update / _delete after
\* the store client answered, and the response of the surface
StoreReply(outcome, n) ==
    /\ pc = "store"
    /\ LET call == storeCalls[Len(storeCalls)]
       IN  /\ outcome \in StoreOutcomes(call)
           /\ response' =
                CASE outcome = "error" ->
                       exception_response(surface, rpc.id, "GoogleAPIError")
                  [] outcome = "row_errors" ->
                       exception_response(surface, rpc.id, "ValueError")
                  [] OTHER ->
                       success_response(surface, rpc.id,
                           OperationResult(args.operation,
                               CASE call.api = "insert_rows_json" -> Len(args.rows.v)
                                 [] call.api = "create_table" -> 1
                                 [] OTHER -> n))
    /\ pc' = "done"
    /\ UNCHANGED <<config, surface, principal, rpc, raw, args, policyCalls,
                   policyOk, storeCalls, probe, twin>>

\* the response is sent; nothing of the request is kept
Finish ==
    /\ pc = "done"
    /\ pc' = "idle"
    /\ surface' = "none"
    /\ principal' = << >>
    /\ rpc' = NoRpc
    /\ raw' = EMPTY_RAW
    /\ args' = NoArgs
    /\ policyCalls' = 0
    /\ policyOk' = FALSE
    /\ storeCalls' = << >>
    /\ response' = NoResponse
    /\ UNCHANGED <<config, probe, twin>>

\* a request arrives only when none is being handled: requests share no
\* mutable state, so one request at a time shows every behaviour of one
Next ==
    \/ RestReceive
    \/ McpToolsList
    \/ McpToolsCall
    \/ McpUnknownMethod
    \/ Authorize
    \/ Execute
    \/ \E o \in {"ok", "error", "row_errors"}, n \in 0..MaxAffected : StoreReply(o, n)
    \/ Finish

Spec == Init /\ [][Next]_vars

-----------------------------------------------------------------------------
(* PolicyEngine.assert_allowed applied directly to bounded inputs *)

ProbePolicies == {POLICY_A, POLICY_B}
ProbePrincipals == {s_alice, s_Alice_sp, s_bob, s_carol}
ProbeOperations == {s_SELECT, s_select, s_UPDATE, s_DELETE, s_DROP}
ProbeDatasets == {s_sales, s_mkt, s_hr}
ProbeTables == {s_orders, StrUpper(s_orders), s_invoices, s_orders_nl}

PolicyInit ==
    /\ policy \in ProbePolicies
    /\ max_select_limit = 1000
    /\ allow_full_table_delete = FALSE
    /\ IdleRequest
    /\ \E p \in ProbePrincipals, o \in ProbeOperations, d \in ProbeDatasets,
          t \in ProbeTables :
          probe = [state |-> "ready", principal |-> p, operation |-> o,
                   dataset |-> d, table |-> t, outcome |-> ""]
    /\ twin = NoTwin

\* one call of assert_allowed: it returns, or raises PermissionError
AssertAllowed ==
    /\ probe.state = "ready"
    /\ probe' = [probe EXCEPT
                   !.state = "done",
                   !.outcome = assert_allowed(policy, probe.principal, probe.operation,
                                              probe.dataset, probe.table)]
    /\ UNCHANGED <<config, pc, surface, principal, rpc, raw, args, policyCalls,
                   policyOk, storeCalls, response, twin>>

PolicyNext == AssertAllowed

PolicySpec == PolicyInit /\ [][PolicyNext]_vars

-----------------------------------------------------------------------------
(* The same structured arguments sent by the same principal to both surfaces,
   first to POST /v1/execute and then as tools/call to POST /mcp, with the
   same policy and configuration and a store that behaves the same way *)

\* what the store does in both runs: it answers (with n affected rows), it
\* raises, or insert_rows_json returns row errors
StorePlans == {"ok", "error", "row_errors"}

\* the arguments sent to both surfaces
PairInputs ==
    {r \in RawInputs : /\ r.limit \in {ABSENT, JInt(5000)}
                       /\ r.columns \in {None, Some(<<s_status>>)}}

\* the id of the tools/call request
PairIds == {JInt(7)}

PairInit ==
    /\ policy \in ServedPolicies
    /\ max_select_limit \in MaxSelectLimits
    /\ allow_full_table_delete \in BOOLEAN
    /\ IdleRequest
    /\ probe = NoProbe
    /\ \E o \in StorePlans, n \in 0..MaxAffected :
          twin = [NoTwin EXCEPT !.phase = "rest", !.store = o, !.n = n]

\* POST /v1/execute with the arguments
PairRestReceive ==
    /\ pc = "idle"
    /\ twin.phase = "rest"
    /\ \E p \in Principals, r \in PairInputs : RestRequest(p, r)

\* the store client answers as planned; row errors exist for
\* insert_rows_json only, any other call then raises
PairStoreReply ==
    /\ pc = "store"
    /\ LET call == storeCalls[Len(storeCalls)]
       IN  StoreReply(IF twin.store \in StoreOutcomes(call) THEN twin.store ELSE "error",
                      twin.n)

\* the response of POST /v1/execute is sent; what the request did is kept
PairRestDone ==
    /\ pc = "done"
    /\ twin.phase = "rest"
    /\ twin' = [twin EXCEPT !.phase = "mcp", !.principal = principal, !.raw = raw,
                            !.policyCalls = policyCalls, !.policyOk = policyOk,
                            !.storeCalls = storeCalls, !.response = response]
    /\ pc' = "idle"
    /\ surface' = "none"
    /\ principal' = << >>
    /\ rpc' = NoRpc
    /\ raw' = EMPTY_RAW
    /\ args' = NoArgs
    /\ policyCalls' = 0
    /\ policyOk' = FALSE
    /\ storeCalls' = << >>
    /\ response' = NoResponse
    /\ UNCHANGED <<config, probe>>

\* tools/call of bigquery.execute with the same arguments, same principal
PairMcpCall ==
    /\ pc = "idle"
    /\ twin.phase = "mcp"
    /\ \E i \in PairIds :
          ToolsCallRequest(twin.principal, Rpc(i, "tools/call", TOOL_NAME, TRUE), twin.raw)

\* the response of POST /mcp is sent; the call may be made again
PairMcpDone ==
    /\ twin.phase = "mcp"
    /\ Finish

PairNext ==
    \/ PairRestReceive
    \/ PairMcpCall
    \/ Authorize
    \/ Execute
    \/ PairStoreReply
    \/ PairRestDone
    \/ PairMcpDone

PairSpec == PairInit /\ [][PairNext]_vars

-----------------------------------------------------------------------------
(* Properties *)

Calls == {storeCalls[i] : i \in DOMAIN storeCalls}
Done == pc = "done"
Keys(d) == {d[j].key : j \in DOMAIN d}

\* C1: on both surfaces and for every operation kind, the store client is
\* called only after assert_allowed returned for the request's (principal,
\* operation, dataset, table); a request that policy denies makes no store call.
C1_AuthorizedBeforeStore ==
    /\ storeCalls # << >> =>
          /\ policyOk
          /\ policyCalls >= 1
          /\ assert_allowed(policy, principal, args.operation, args.dataset,
                            args.table) = "ok"
    /\ pc \in {"execute", "store"} => policyOk
    /\ (policyCalls >= 1 /\ ~ policyOk) => storeCalls = << >>

\* a SELECT of an authorized principal has reached the store over /mcp
C1_Witness ==
    /\ surface = "mcp"
    /\ args.operation = s_SELECT
    /\ policyOk
    /\ Len(storeCalls) = 1

\* a request that policy denied has been answered
C1_DeniedSeen == Done /\ policyCalls = 1 /\ ~ policyOk /\ surface = "rest"

\* the names a SELECT, UPDATE or DELETE puts into its query text
UsedNames(a) ==
    {a.dataset, a.table}
    \cup (IF a.operation = s_SELECT /\ Truthy(a.columns) THEN Range(a.columns.v) ELSE {})
    \cup (IF Truthy(a.filters) THEN Keys(a.filters.v) ELSE {})
    \cup (IF a.operation = s_UPDATE /\ Truthy(a.set_values) THEN Keys(a.set_values.v) ELSE {})

\* the values a SELECT, UPDATE or DELETE has to bind
UsedValues(a) ==
    (IF Truthy(a.filters) THEN {a.filters.v[j].val : j \in DOMAIN a.filters.v} ELSE {})
    \cup (IF a.operation = s_UPDATE /\ Truthy(a.set_values)
          THEN {a.set_values.v[j].val : j \in DOMAIN a.set_values.v} ELSE {})

\* the literal pieces of the query texts, and the parameter names
SqlLiterals ==
    {"SELECT ", "*", ", ", " FROM ", " WHERE ", " AND ", " = @", " LIMIT @limit",
     "DELETE FROM ", "\n        UPDATE ", "\n        SET ", "\n        WHERE ",
     "\n        ", ".", BACKQUOTE}
ParamNames == {pre \o ToString(i) : pre \in {"f", "s", "w", "d"}, i \in 0..MaxPairs}

\* C2: in every query text of a SELECT, UPDATE or DELETE each dataset, table
\* and column name matches ^[A-Za-z_][A-Za-z0-9_]{0,127}$, every filter value
\* and set value is bound as a parameter and the text holds nothing but the
\* literal pieces, parameter names and identifier characters; a request with
\* a name that does not match fails without a store call.
C2_IdentifiersCheckedValuesBound ==
    /\ \A c \in Calls : c.api = "query" =>
          /\ \A nm \in UsedNames(args) : IdentPattern(nm)
          /\ \A v \in UsedValues(args) : \E i \in DOMAIN c.params : c.params[i].value = v
          /\ \A i \in DOMAIN c.sql :
                c.sql[i] \in SqlLiterals \cup ParamNames \cup IDENT_REST
    /\ (/\ Done
        /\ args.operation \in {s_SELECT, s_UPDATE, s_DELETE}
        /\ \E nm \in UsedNames(args) : ~ IdentPattern(nm))
       => storeCalls = << >> /\ response.has_error

\* what holds of the code in place of C2: the names passed IDENT_RE.match, which
\* also admits one newline after the identifier
C2_AsImplemented ==
    \A c \in Calls : c.api = "query" =>
       /\ \A nm \in UsedNames(args) : IDENT_RE_match(nm)
       /\ \A v \in UsedValues(args) : \E i \in DOMAIN c.params : c.params[i].value = v
       /\ \A i \in DOMAIN c.sql :
             c.sql[i] \in SqlLiterals \cup ParamNames \cup IDENT_REST \cup {"\n"}

\* C3: an UPDATE whose set_values or filters is absent or empty is rejected
\* as a validation failure before any policy evaluation and before any store
\* call, also for a principal the policy would deny (400, not 403).
C3_UpdateGuardBeforePolicy ==
    (/\ Done
     /\ args.operation = s_UPDATE
     /\ ~ Truthy(args.set_values) \/ ~ Truthy(args.filters))
    => /\ policyCalls = 0
       /\ storeCalls = << >>
       /\ response.has_error
       /\ surface = "rest" => response.status = STATUS_BAD_REQUEST

\* the part of C3 that holds of the code: such an UPDATE never reaches the store
C3_UpdateGuardBeforeStore ==
    (args.operation = s_UPDATE /\ (~ Truthy(args.set_values) \/ ~ Truthy(args.filters)))
    => storeCalls = << >>

\* dataset, table and every filter key of the request are identifiers
NamesAccepted(a) == \A nm \in UsedNames(a) : IdentPattern(nm)

\* C4: a DELETE without filters reaches the store iff allow_full_table_delete
\* is set: with the flag disabled it fails with a policy-kind error (403 on
\* /v1/execute, -32000 on /mcp) and no store call; with the flag enabled one
\* DELETE query without WHERE clause and without parameters is issued.  A
\* DELETE with filters carries a WHERE clause with one predicate per filter.
C4_FullTableDelete ==
    /\ (/\ Done
        /\ args.operation = s_DELETE
        /\ ~ Truthy(args.filters)
        /\ policyOk
        /\ NamesAccepted(args)
        /\ ~ allow_full_table_delete)
       => /\ storeCalls = << >>
          /\ response.has_error
          /\ surface = "rest" => response.status = STATUS_FORBIDDEN
          /\ surface = "mcp" => response.code = CODE_EXECUTION_ERROR
    /\ (/\ Done
        /\ args.operation = s_DELETE
        /\ ~ Truthy(args.filters)
        /\ policyOk
        /\ NamesAccepted(args)
        /\ allow_full_table_delete)
       => /\ Len(storeCalls) = 1
          /\ storeCalls[1].api = "query"
          /\ storeCalls[1].params = << >>
          /\ " WHERE " \notin Range(storeCalls[1].sql)
    /\ \A c \in Calls : (args.operation = s_DELETE /\ Truthy(args.filters)) =>
          /\ " WHERE " \in Range(c.sql)
          /\ Cardinality({i \in DOMAIN c.sql : c.sql[i] = " = @"}) = Len(args.filters.v)
          /\ Len(c.params) = Len(args.filters.v)

\* the part of C4 that holds of the code: C4 without the kind of the error
C4_AsImplemented ==
    /\ (/\ args.operation = s_DELETE
        /\ ~ Truthy(args.filters)
        /\ ~ allow_full_table_delete)
       => storeCalls = << >>
    /\ (/\ Done
        /\ args.operation = s_DELETE
        /\ ~ Truthy(args.filters)
        /\ policyOk
        /\ NamesAccepted(args))
       => IF allow_full_table_delete
          THEN /\ Len(storeCalls) = 1
               /\ storeCalls[1].params = << >>
               /\ " WHERE " \notin Range(storeCalls[1].sql)
          ELSE /\ storeCalls = << >>
               /\ surface = "rest" => response.status = STATUS_BAD_REQUEST
    /\ \A c \in Calls : (args.operation = s_DELETE /\ Truthy(args.filters)) =>
          /\ " WHERE " \in Range(c.sql)
          /\ Cardinality({i \in DOMAIN c.sql : c.sql[i] = " = @"}) = Len(args.filters.v)
          /\ Len(c.params) = Len(args.filters.v)

\* C5: on POST /v1/execute the status follows the failure kind: a validation
\* failure raised by the gateway yields 400, a policy denial 403, and every
\* failure reported by the store, row-level INSERT errors included, 500; no
\* store-side failure is reported as 400 or 403.
C5_StatusByFailureKind ==
    (Done /\ surface = "rest" /\ response.has_error /\ ExecuteArgs_valid(raw)) =>
       /\ ~ policyOk => response.status = STATUS_FORBIDDEN
       /\ (policyOk /\ storeCalls = << >>) => response.status = STATUS_BAD_REQUEST
       /\ (storeCalls # << >> /\ NamesAccepted(args)) =>
             /\ response.status = STATUS_SERVER_ERROR
             /\ response.status \notin {STATUS_BAD_REQUEST, STATUS_FORBIDDEN}

\* the part of C5 that holds of the code: C5 with the store's failures limited
\* to the exceptions the store client raises
C5_AsImplemented ==
    (Done /\ surface = "rest" /\ response.has_error /\ ExecuteArgs_valid(raw)) =>
       /\ ~ policyOk => response.status = STATUS_FORBIDDEN
       /\ (policyOk /\ storeCalls = << >>) => response.status = STATUS_BAD_REQUEST
       /\ storeCalls # << >> =>
             response.status = IF storeCalls[1].api = "insert_rows_json"
                               THEN response.status ELSE STATUS_SERVER_ERROR

\* the validation failures C6 lists, read off the arguments document
ListedInvalid(r) ==
    \/ ~ ExecuteArgs_valid(r)
    \/ LET a == ExecuteArgs_parse(r)
       IN  \/ \E nm \in {a.dataset, a.table} : ~ IdentPattern(nm)
           \/ a.operation \in {s_SELECT, s_UPDATE, s_DELETE}
              /\ \E nm \in UsedNames(a) : ~ IdentPattern(nm)
           \/ a.operation = s_UPDATE /\ (~ Truthy(a.set_values) \/ ~ Truthy(a.filters))
           \/ a.operation = s_CREATE_TABLE
              /\ \/ ~ Truthy(a.schema)
                 \/ \E i \in DOMAIN a.schema.v :
                       \/ a.schema.v[i].type \notin ALLOWED_TYPES
                       \/ ~ IdentPattern(a.schema.v[i].name)
           \/ a.operation = s_INSERT /\ ~ Truthy(a.rows)

\* C6: for a tools/call of the recognized tool every validation failure of the
\* arguments (missing or mistyped field, unknown operation, invalid mode, type
\* outside the allow-list, name that is no identifier, UPDATE with empty
\* set_values or filters, CREATE_TABLE with empty schema, INSERT with empty
\* rows) is answered with code -32602 without invoking the gateway; -32000 is
\* produced only for failures during execution.
C6_InvalidParamsBeforeGateway ==
    (Done /\ surface = "mcp" /\ rpc.method = "tools/call" /\ rpc.name = TOOL_NAME) =>
       /\ ListedInvalid(raw) =>
             /\ response.has_error
             /\ response.code = CODE_INVALID_PARAMS
             /\ policyCalls = 0
             /\ storeCalls = << >>
       /\ (response.has_error /\ response.code = CODE_EXECUTION_ERROR) =>
             ~ ListedInvalid(raw)

\* the part of C6 that holds of the code: what model_validate rejects is
\* answered with -32602 before the gateway is invoked, and nothing else is
C6_AsImplemented ==
    (Done /\ surface = "mcp" /\ rpc.method = "tools/call" /\ rpc.name = TOOL_NAME) =>
       /\ ~ ExecuteArgs_valid(raw) <=> (response.has_error /\ response.code = CODE_INVALID_PARAMS)
       /\ ~ ExecuteArgs_valid(raw) => (policyCalls = 0 /\ storeCalls = << >>)

\* C7 as stated: every tools/list request, whatever its params and id, gets a
\* success envelope whose tools list holds exactly one descriptor, named
\* "execute-operation"; tools/list never invokes the gateway.
C7_ToolsListExecuteOperation ==
    (Done /\ rpc.method = "tools/list") =>
       /\ response.has_result /\ ~ response.has_error
       /\ response.result.kind = "tools"
       /\ Len(response.result.tools) = 1
       /\ response.result.tools[1].name = "execute-operation"
       /\ policyCalls = 0
       /\ storeCalls = << >>

\* C7 amended: every tools/list request, whatever its params and id, gets a
\* success envelope whose tools list holds exactly one descriptor, named
\* "bigquery.execute"; tools/list never invokes the gateway.
C7_ToolsListOneDescriptor ==
    (Done /\ rpc.method = "tools/list") =>
       /\ response.has_result /\ ~ response.has_error
       /\ response.result.kind = "tools"
       /\ Len(response.result.tools) = 1
       /\ response.result.tools[1].name = "bigquery.execute"
       /\ policyCalls = 0
       /\ storeCalls = << >>

\* a tools/list request that carries params (a tool name and arguments) and a
\* string id has been answered
C7_Witness ==
    /\ Done
    /\ rpc.method = "tools/list"
    /\ rpc.name = "execute-operation"
    /\ rpc.has_arguments
    /\ rpc.id = JStr(s_id)
    /\ response.has_result

\* C8: every response of the tool-call dispatcher (tools/list, tools/call
\* success, unrecognized tool name, invalid params, execution failure, unknown
\* method) carries the id of its request, a null id included, and exactly one
\* of result and error; an unrecognized tool name and an unknown method yield
\* code -32601.
C8_EnvelopeEchoesId ==
    (Done /\ surface = "mcp") =>
       /\ response.has_id
       /\ response.id = rpc.id
       /\ response.has_result # response.has_error
       /\ (rpc.method = "tools/call" /\ rpc.name # TOOL_NAME) =>
             (response.has_error /\ response.code = CODE_METHOD_NOT_FOUND)
       /\ rpc.method \notin {"tools/list", "tools/call"} =>
             (response.has_error /\ response.code = CODE_METHOD_NOT_FOUND)

\* an execution failure of a tools/call with a null id has been answered
C8_Witness ==
    /\ Done
    /\ surface = "mcp"
    /\ rpc.method = "tools/call"
    /\ rpc.id = JNull
    /\ storeCalls # << >>
    /\ response.has_error
    /\ response.code = CODE_EXECUTION_ERROR

\* the other outcomes of C8 are reached as well
C8_SeenUnknownTool ==
    Done /\ rpc.method = "tools/call" /\ rpc.name = "execute-operation" /\ rpc.id = JInt(7)
C8_SeenUnknownMethod == Done /\ rpc.method = "initialize" /\ rpc.id = JStr(s_id)
C8_SeenInvalidParams == Done /\ response.code = CODE_INVALID_PARAMS /\ rpc.id = JNull
C8_SeenSuccess ==
    Done /\ rpc.method = "tools/call" /\ response.has_result /\ rpc.id = JStr(s_id)

\* C9, the rule set of a principal: the entry of the principal map whose name
\* is the trimmed, lower-cased principal, else the default rule set, else none
C9_Rules(pol, p) ==
    LET n == StrStrip(StrLower(p))
        hits == {e \in pol.principals : e.name = n}
    IN  IF hits # {} THEN {e.rules : e \in hits}
        ELSE IF pol.has_default THEN {pol.default} ELSE {}

\* C9, the outcome the claim gives: the first failing check in the order
\* operation, dataset, table (operations compared without regard to case and
\* surrounding blanks)
C9_Expected(pol, p, operation, dataset, table) ==
    LET rs == C9_Rules(pol, p)
    IN  IF ~ \E r \in rs : \E o \in r.operations :
                StrStrip(StrUpper(o)) = StrUpper(operation)
        THEN "operation"
        ELSE IF ~ \E r \in rs : \E d \in r.datasets : d.name = dataset
        THEN "dataset"
        ELSE IF ~ \E r \in rs : \E d \in r.datasets :
                    d.name = dataset /\ (s_star \in d.tables \/ table \in d.tables)
        THEN "table"
        ELSE "ok"

\* C9: assert_allowed succeeds iff, for the rule set of the principal (exact
\* match of the trimmed, lower-cased principal, else the default, an absent
\* default denying everything), the upper-cased operation is among the rule's
\* operations, the dataset is a key of its dataset map and the dataset's table
\* set holds "*" or the exact table; otherwise it fails with the reason of the
\* first failing check in the order operation, dataset, table.
C9_AssertAllowedDecision ==
    probe.state = "done" =>
       probe.outcome = C9_Expected(policy, probe.principal, probe.operation,
                                   probe.dataset, probe.table)

\* the wildcard of dataset mkt has admitted a table that no rule names, for
\* a principal written with blanks and capitals and an operation in lower case
C9_Witness ==
    /\ probe.state = "done"
    /\ policy = POLICY_A
    /\ probe.principal = s_Alice_sp
    /\ probe.operation = s_select
    /\ probe.dataset = s_mkt
    /\ probe.table = s_orders_nl
    /\ probe.outcome = "ok"

\* the example of the specification: the default rule set of POLICY_A is
\* {operations: [SELECT], datasets: {sales: [orders]}}
C9_Example ==
    (probe.state = "done" /\ policy = POLICY_A /\ probe.principal = s_bob) =>
       /\ (probe.operation = s_SELECT /\ probe.dataset = s_sales /\ probe.table = s_orders)
             => probe.outcome = "ok"
       /\ (probe.operation = s_DELETE /\ probe.dataset = s_sales /\ probe.table = s_orders)
             => probe.outcome = "operation"
       /\ (probe.operation = s_SELECT /\ probe.dataset = s_sales /\ probe.table = s_invoices)
             => probe.outcome = "table"
       /\ (probe.operation = s_SELECT /\ probe.dataset = s_mkt /\ probe.table = s_orders)
             => probe.outcome = "dataset"

\* the value bound to @limit by a query call
BoundLimit(c) == c.params[CHOOSE i \in DOMAIN c.params : c.params[i].name = "limit"]

\* C10: for every SELECT the value bound to @limit lies in
\* [1, max_select_limit] and is max_select_limit when the requested limit
\* exceeds it, 1 when the requested limit is 0 or negative, the requested limit
\* when it is in range, and min(100, max_select_limit) when the limit is absent.
C10_LimitClamp ==
    \A c \in Calls : args.operation = s_SELECT =>
       /\ \E i \in DOMAIN c.params : c.params[i].name = "limit"
       /\ LET b == BoundLimit(c).value.n
          IN  /\ 1 <= b /\ b <= max_select_limit
              /\ b = IF raw.limit.k = "absent" THEN Min(100, max_select_limit)
                     ELSE IF raw.limit.n > max_select_limit THEN max_select_limit
                     ELSE IF raw.limit.n <= 0 THEN 1
                     ELSE raw.limit.n

\* the part of C10 that holds of the code: C10 for every limit but 0, which
\* is bound like an absent limit
C10_AsImplemented ==
    \A c \in Calls : args.operation = s_SELECT =>
       /\ \E i \in DOMAIN c.params : c.params[i].name = "limit"
       /\ LET b == BoundLimit(c).value.n
          IN  /\ 1 <= b /\ b <= max_select_limit
              /\ b = IF raw.limit.k = "absent" \/ raw.limit.n = 0
                     THEN Min(100, max_select_limit)
                     ELSE IF raw.limit.n > max_select_limit THEN max_select_limit
                     ELSE IF raw.limit.n < 0 THEN 1
                     ELSE raw.limit.n

\* what became of a request: it succeeded; its arguments were rejected, when
\* ExecuteArgs was built or by bq_service before any store call; the policy
\* denied it; or the store call failed
OutcomeKind(r, ok, calls, resp) ==
    IF resp.has_result THEN "success"
    ELSE IF ~ ExecuteArgs_valid(r) THEN "validation failure"
    ELSE IF ~ ok THEN "policy denial"
    ELSE IF calls = << >> THEN "validation failure"
    ELSE "execution failure"

\* the tools/call of the comparison has been answered
Compared == twin.phase = "mcp" /\ pc = "done"

C11_DeniedSeen ==
    /\ Compared
    /\ ~ policyOk /\ policyCalls = 1
    /\ twin.response.status = STATUS_FORBIDDEN
    /\ response.code = CODE_EXECUTION_ERROR

\* the envelopes of the two surfaces, kind by kind, as the code renders them
C11_Envelopes ==
    Compared =>
       LET s == twin.response.status
       IN  /\ s = 200 <=> response.has_result
           /\ s = STATUS_UNPROCESSABLE <=> response.code = CODE_INVALID_PARAMS
           /\ s \in {STATUS_FORBIDDEN, STATUS_BAD_REQUEST, STATUS_SERVER_ERROR}
                 <=> response.code = CODE_EXECUTION_ERROR

\* the entry points of the store client's execution path
STORE_APIS == {"query", "create_table", "insert_rows_json"}

\* of a request at any moment: at most one store call has been made, through
\* query, create_table or insert_rows_json; a response exists exactly when
\* the request is finished, and it is a result or a failure, never both
C12_AtMostOneCall ==
    /\ Len(storeCalls) <= 1
    /\ \A c \in Calls : c.api \in STORE_APIS
    /\ Done <=> response # NoResponse
    /\ Done => (response.has_result <=> ~ response.has_error)

\* of a step: the answer of the store, failure included, ends the request
\* with a response and without another store call; a response once produced
\* is never replaced; a finished request makes no further step but its end
C12_NoRetry ==
    /\ pc = "store" =>
          /\ pc' = "done"
          /\ storeCalls' = storeCalls
          /\ response' # NoResponse
    /\ pc = "done" =>
          /\ pc' = "idle"
          /\ storeCalls' = << >>
    /\ storeCalls # << >> => storeCalls' \in {storeCalls, << >>}

\* C12: on either surface and for every operation kind a request causes at
\* most one call into the store's execution path (one query, one create_table
\* or one insert_rows_json) and exactly one response; when the store call
\* fails the failure is reported once, as a failed response, and the store is
\* not called again for that request.
C12_OneCallOneResponse == [] C12_AtMostOneCall /\ [][C12_NoRetry]_vars

\* a tools/call whose one store call failed has been answered with an error
C12_Witness ==
    /\ Done
    /\ surface = "mcp"
    /\ Len(storeCalls) = 1
    /\ policyOk
    /\ response.has_error /\ ~ response.has_result
    /\ response.code = CODE_EXECUTION_ERROR

\* the same on POST /v1/execute, for a DELETE whose query raised
C12_RestFailureSeen ==
    /\ Done
    /\ surface = "rest"
    /\ args.operation = s_DELETE
    /\ Len(storeCalls) = 1
    /\ response.status = STATUS_SERVER_ERROR

====
